---------------------------- MODULE Spec2Model ----------------------------
(***************************************************************************)
(* Model of the holder-aggregation pipeline of claims-app:                 *)
(*   scripts/scrape_holders.py    get_collection_holders, main             *)
(*   scripts/scrape_token_ids.py  get_collection_nfts, main                *)
(*   scripts/analyze_distribution.py  create_lorenz_curve                  *)
(*                                                                         *)
(* Python strings are sequences of one-character strings.  JSON values are *)
(* records [t, s, n]: t the JSON/Python type, s the text of a string (or   *)
(* of a float), n the value of an int (the truncation of a float, the      *)
(* length of a list).                                                      *)
(***************************************************************************)
EXTENDS Integers, Sequences, FiniteSets

(***************************************************************************)
(* Bounds of the model.                                                    *)
(***************************************************************************)
\* requests one run may issue
MaxPages == 2
\* records the upstream serves over one run
MaxRecords == 2
\* length of the raw addresses canonicalization is applied to
MaxAddrLen == 4
\* length of the record sequences aggregated in both orders
MaxAggLen == 2
\* holders of the tables the Gini coefficient is computed for
MaxHolders == 4
\* largest amount of a holder in those tables
MaxAmount == 3

(***************************************************************************)
(* Python str / int primitives.                                            *)
(***************************************************************************)
\* the characters of the model in code-point order (str comparison)
CodePoints ==
    << "-", ".", "0", "1", "2", "3", "4", "5", "6", "7", "8", "9",
       "A", "B", "C", "D", "E", "F", "X", "Z",
       "a", "b", "c", "d", "e", "f", "x", "z" >>

Ord(c) == CHOOSE i \in 1..Len(CodePoints) : CodePoints[i] = c

UpperChars == << "A", "B", "C", "D", "E", "F", "X", "Z" >>
LowerChars == << "a", "b", "c", "d", "e", "f", "x", "z" >>

\* str.lower() on one character
LowerChar(c) ==
    IF \E i \in 1..Len(UpperChars) : UpperChars[i] = c
    THEN LowerChars[CHOOSE i \in 1..Len(UpperChars) : UpperChars[i] = c]
    ELSE c

\* str.lower()
Lower(s) == [i \in 1..Len(s) |-> LowerChar(s[i])]

\* s.startswith("0x")
StartsWith0x(s) == Len(s) >= 2 /\ s[1] = "0" /\ s[2] = "x"

\* s[2:]
From2(s) == SubSeq(s, 3, Len(s))

\* s.lstrip("0")
RECURSIVE LStripZeros(_)
LStripZeros(s) ==
    IF s # << >> /\ Head(s) = "0" THEN LStripZeros(Tail(s)) ELSE s

\* str < str: lexicographic by code point, a proper prefix first
RECURSIVE StrLess(_, _)
StrLess(a, b) ==
    IF b = << >> THEN FALSE
    ELSE IF a = << >> THEN TRUE
    ELSE IF Head(a) # Head(b) THEN Ord(Head(a)) < Ord(Head(b))
    ELSE StrLess(Tail(a), Tail(b))

HexChars == << "0", "1", "2", "3", "4", "5", "6", "7", "8", "9",
               "a", "b", "c", "d", "e", "f" >>

\* the value of the digit c in the given base, -1 when c is no digit of it
DigitVal(c, base) ==
    LET l == LowerChar(c)
    IN  IF \E i \in 1..base : HexChars[i] = l
        THEN (CHOOSE i \in 1..base : HexChars[i] = l) - 1
        ELSE -1

RECURSIVE HexDigitsOf(_)
HexDigitsOf(n) ==
    IF n < 16 THEN << HexChars[n + 1] >>
    ELSE HexDigitsOf(n \div 16) \o << HexChars[(n % 16) + 1] >>

\* hex(n)
hex(n) ==
    IF n < 0 THEN << "-", "0", "x" >> \o HexDigitsOf(-n)
    ELSE << "0", "x" >> \o HexDigitsOf(n)

RECURSIVE DigitsValue(_, _, _)
DigitsValue(s, base, acc) ==
    IF s = << >> THEN acc
    ELSE DigitsValue(Tail(s), base, acc * base + DigitVal(Head(s), base))

\* int(s, base) for base 10 and 16: an optional sign, for base 16 an optional
\* 0x / 0X prefix, then one or more digits of the base; ok = FALSE is ValueError
ParseInt(s, base) ==
    LET neg    == s # << >> /\ Head(s) = "-"
        body   == IF neg THEN Tail(s) ELSE s
        pref   == /\ base = 16
                  /\ Len(body) >= 2
                  /\ body[1] = "0"
                  /\ body[2] \in {"x", "X"}
        digits == IF pref THEN From2(body) ELSE body
        valid  == /\ digits # << >>
                  /\ \A i \in 1..Len(digits) : DigitVal(digits[i], base) >= 0
        mag    == DigitsValue(digits, base, 0)
    IN  IF valid THEN [ok |-> TRUE, val |-> IF neg THEN -mag ELSE mag]
        ELSE [ok |-> FALSE, val |-> 0]

(***************************************************************************)
(* JSON values.                                                            *)
(***************************************************************************)
Absent == [t |-> "absent", s |-> << >>, n |-> 0]
Null == [t |-> "null", s |-> << >>, n |-> 0]
JStr(s) == [t |-> "str", s |-> s, n |-> 0]
JInt(n) == [t |-> "int", s |-> << >>, n |-> n]
\* a float, by its text and its truncation
JFloat(s, n) == [t |-> "float", s |-> s, n |-> n]
\* a JSON array of n elements
JList(n) == [t |-> "list", s |-> << >>, n |-> n]

\* bool(v)
Truthy(v) ==
    CASE v.t = "str" -> v.s # << >>
      [] v.t \in {"int", "list"} -> v.n # 0
      [] v.t = "float" -> v.s # << "0", ".", "0" >>
      [] OTHER -> FALSE

\* the networks of the model: the one line 118 singles out, and one of the
\* others main() accepts
Networks == {"starknet", "ethereum"}

\* Canonicalize without the all-zero edge case of lines 121-123
CanonicalizeNoZeroCase(owner_address, net) ==
    LET prefixed == IF StartsWith0x(owner_address) THEN owner_address
                    ELSE << "0", "x" >> \o owner_address
        lowered  == Lower(prefixed)
    IN  IF net = "starknet"
        THEN << "0", "x" >> \o LStripZeros(From2(lowered))
        ELSE lowered

\* lines 112-123 of get_collection_holders, owner_address a str
Canonicalize(owner_address, net) ==
    LET prefixed == IF StartsWith0x(owner_address) THEN owner_address
                    ELSE << "0", "x" >> \o owner_address
        lowered  == Lower(prefixed)
        stripped == << "0", "x" >> \o LStripZeros(From2(lowered))
    IN  IF net = "starknet"
        THEN IF stripped = << "0", "x" >> THEN << "0", "x", "0" >> ELSE stripped
        ELSE lowered


(***************************************************************************)
(* Upstream records.  A record is a JSON object over the six keys the      *)
(* collectors look at; a key the object lacks holds Absent.                *)
(***************************************************************************)
Nft(oa, o_a, o, ti, t_i, i) ==
    [ownerAddress |-> oa, owner_address |-> o_a, owner |-> o,
     tokenId |-> ti, token_id |-> t_i, id |-> i]

\* the record with the primary keys only
Rec(owner, token) == Nft(owner, Absent, Absent, token, Absent, Absent)

\* the records the modelled upstream serves
Nfts ==
    { Rec(JStr(<< "0", "x", "0", "A" >>), JInt(26)),
      Nft(Absent, JStr(<< "a" >>), Absent,
          Absent, JStr(<< "0", "x", "1", "A" >>), Absent),
      Rec(JStr(<< "0", "x", "0", "A" >>), JStr(<< "0", "x", "0", "1", "a" >>)),
      Rec(JStr(<< "0", "x", "0", "A" >>), JInt(0)),
      Rec(JStr(<< "0", "x", "0", "A" >>), JStr(<< "0" >>)),
      Rec(JStr(<< "0", "x", "Z" >>), JStr(<< "2", "6" >>)),
      Rec(JStr(<< "0", "x", "0", "A" >>), JStr(<< "z", "z" >>)),
      Rec(JStr(<< "0", "x", "0", "A" >>), JList(1)),
      Rec(JStr(<< "0", "x", "0", "A" >>), JStr(<< "0", "x", "z", "z" >>)),
      Rec(JStr(<< "0", "x", "0", "A" >>), JFloat(<< "1", ".", "5" >>, 1)),
      Rec(JInt(5), JInt(7)),
      Nft(Absent, Absent, JStr(<< "0", "x", "b" >>),
          Absent, Absent, JStr(<< "7" >>)),
      Nft(Absent, Absent, Absent, Absent, Absent, JInt(7)),
      Rec(JStr(<< "0", "x", "0", "A" >>), Absent),
      Rec(JStr(<< >>), JInt(7)) }

\* the value of the loop variable nft before the first record
NoNft == Rec(Absent, Absent)

\* "k" in nft
Has(v) == v.t # "absent"

OwnerOfLastAlias(nft) ==
    IF Has(nft.owner) THEN nft.owner
    ELSE IF Has(nft.owner_address) THEN nft.owner_address
    ELSE IF Has(nft.ownerAddress) THEN nft.ownerAddress
    ELSE Null

\* lines 94-100: owner_address, None when no alias is present
OwnerOf(nft) ==
    IF Has(nft.ownerAddress) THEN nft.ownerAddress
    ELSE IF Has(nft.owner_address) THEN nft.owner_address
    ELSE IF Has(nft.owner) THEN nft.owner
    ELSE Null

\* lines 103-109 (scrape_token_ids.py 84-92): token_id, None when no alias is present
TokenOf(nft) ==
    IF Has(nft.tokenId) THEN nft.tokenId
    ELSE IF Has(nft.token_id) THEN nft.token_id
    ELSE IF Has(nft.id) THEN nft.id
    ELSE Null

(***************************************************************************)
(* The holder map: holders_tokens, a defaultdict(set) from address to the  *)
(* set of stored token ids.                                                *)
(***************************************************************************)
EmptyDict == [a \in {} |-> {}]

\* holders_tokens[address]: the entry, created empty when missing
Touch(h, address) ==
    [a \in DOMAIN h \cup {address} |-> IF a \in DOMAIN h THEN h[a] ELSE {}]

\* holders_tokens[address].add(x)
AddToken(h, address, x) ==
    [a \in DOMAIN h \cup {address} |->
        IF a = address THEN Touch(h, address)[a] \cup {x} ELSE h[a]]

\* lines 126-131: the value stored for token_id; ok = FALSE is the ValueError
\* of int(token_id)
TokenIdHex(token_id) ==
    IF token_id.t = "int" THEN [ok |-> TRUE, v |-> JStr(hex(token_id.n))]
    ELSE IF token_id.t = "str" /\ ~StartsWith0x(token_id.s)
    THEN LET p == ParseInt(token_id.s, 10)
         IN  [ok |-> p.ok, v |-> JStr(hex(p.val))]
    ELSE [ok |-> TRUE, v |-> token_id]

\* the guard of line 111
Kept(owner_address, token_id) == Truthy(owner_address) /\ Truthy(token_id)

\* lines 93-133, one iteration of the loop over nfts: the holder map after
\* it, and whether it raised
ProcessNft(h, nft, net) ==
    LET owner_address == OwnerOf(nft)
        token_id      == TokenOf(nft)
        hx            == TokenIdHex(token_id)
        address       == Canonicalize(owner_address.s, net)
    IN  IF ~Kept(owner_address, token_id) THEN [raised |-> FALSE, h |-> h]
        \* owner_address.startswith on a value that is no str: AttributeError
        ELSE IF owner_address.t # "str" THEN [raised |-> TRUE, h |-> h]
        ELSE IF ~hx.ok THEN [raised |-> TRUE, h |-> h]
        \* set.add of an unhashable value: TypeError, after the defaultdict
        \* has created the entry
        ELSE IF hx.v.t = "list" THEN [raised |-> TRUE, h |-> Touch(h, address)]
        ELSE [raised |-> FALSE, h |-> AddToken(h, address, hx.v)]

\* scrape_token_ids.py lines 94-102: the int appended for token_id, ok = FALSE
\* when int() raises
TokenInt(token_id) ==
    IF token_id.t = "str"
    THEN IF StartsWith0x(token_id.s) THEN ParseInt(token_id.s, 16)
         ELSE ParseInt(token_id.s, 10)
    ELSE IF token_id.t \in {"int", "float"} THEN [ok |-> TRUE, val |-> token_id.n]
    ELSE [ok |-> FALSE, val |-> 0]

\* scrape_token_ids.py lines 82-102, one iteration of the loop over nfts
ProcessTokenNft(ids, nft) ==
    LET token_id == TokenOf(nft)
        p        == TokenInt(token_id)
    IN  IF token_id.t = "null" THEN [raised |-> FALSE, ids |-> ids]
        ELSE IF ~p.ok THEN [raised |-> TRUE, ids |-> ids]
        ELSE [raised |-> FALSE, ids |-> Append(ids, p.val)]

(***************************************************************************)
(* Snapshot assembly, lines 158-163.                                       *)
(***************************************************************************)
\* the sort key of line 162, int(x, 16); ok = FALSE when it raises
SortKey(x) ==
    IF x.t = "str" THEN ParseInt(x.s, 16) ELSE [ok |-> FALSE, val |-> 0]

\* every key of line 162 can be computed
Sortable(h) == \A a \in DOMAIN h : \A x \in h[a] : SortKey(x).ok

\* sorted(list(token_ids), key=...): the iteration order of a set is not
\* fixed, so equal keys come out in any order
RECURSIVE SortedTokenIds(_)
SortedTokenIds(S) ==
    IF S = {} THEN { << >> }
    ELSE LET least == {x \in S : \A y \in S : SortKey(x).val <= SortKey(y).val}
         IN  UNION { { << x.s >> \o rest : rest \in SortedTokenIds(S \ {x}) } :
                     x \in least }

\* sorted(holders_tokens.items()) with each token-id set sorted: the
\* snapshot lists the code can return for h
RECURSIVE SnapshotData(_, _)
SnapshotData(h, addrs) ==
    IF addrs = {} THEN { << >> }
    ELSE LET first == CHOOSE a \in addrs : \A b \in addrs \ {a} : StrLess(a, b)
         IN  UNION { { << << first, ids >> >> \o rest :
                       rest \in SnapshotData(h, addrs \ {first}) } :
                     ids \in SortedTokenIds(h[first]) }

(***************************************************************************)
(* main(): the arguments of a run and the request parameters built from    *)
(* them.                                                                   *)
(***************************************************************************)
\* lines 271-273 (scrape_token_ids.py 209-211): the largest page size sent
MaxPageSize == 100

\* the values of --page-size (lines 242-247, type=int): below, at and above
\* the maximum
PageSizeArgs == {50, 100, 101}

ClampPageSizeNone(page_size) == page_size

\* lines 271-273 (scrape_token_ids.py 209-211)
ClampPageSize(page_size) ==
    IF page_size > MaxPageSize THEN MaxPageSize ELSE page_size

DecChars == << "0", "1", "2", "3", "4", "5", "6", "7", "8", "9" >>

RECURSIVE DecDigitsOf(_)
DecDigitsOf(n) ==
    IF n < 10 THEN << DecChars[n + 1] >>
    ELSE DecDigitsOf(n \div 10) \o << DecChars[(n % 10) + 1] >>

\* str(n) of an int
str(n) == IF n < 0 THEN << "-" >> \o DecDigitsOf(-n) ELSE DecDigitsOf(n)

\* --contract-address, --start-token-id (not given) and --end-token-id of
\* the run
ContractAddress == << "0", "x", "c" >>
StartTokenId == Null
EndTokenId == JStr(<< "9" >>)

BuildParamsNoCursor(page_size, key) ==
    [ contractAddress |-> ContractAddress,
      pageSize |-> str(page_size),
      startTokenId |-> IF Truthy(StartTokenId) THEN StartTokenId ELSE Absent,
      endTokenId |-> IF Truthy(EndTokenId) THEN EndTokenId ELSE Absent,
      pageKey |-> Absent ]

\* lines 56-67 (scrape_token_ids.py 46-57): the params of one request, for
\* the page size of the run and the cursor held in page_key
BuildParams(page_size, key) ==
    [ contractAddress |-> ContractAddress,
      pageSize |-> str(page_size),
      startTokenId |-> IF Truthy(StartTokenId) THEN StartTokenId ELSE Absent,
      endTokenId |-> IF Truthy(EndTokenId) THEN EndTokenId ELSE Absent,
      pageKey |-> IF Truthy(key) THEN key ELSE Absent ]

\* no request made yet
NoParams ==
    [ contractAddress |-> << >>, pageSize |-> << >>, startTokenId |-> Absent,
      endTokenId |-> Absent, pageKey |-> Absent ]

(***************************************************************************)
(* The response document: a JSON object whose page (nfts, nextPageKey) is  *)
(* at the top level or under "result".                                     *)
(***************************************************************************)
\* the page of a response: its records and its cursor
Page(nfts, key) == [nfts |-> nfts, nextPageKey |-> key]

NoPage == Page(<< >>, Null)

\* nothing read yet
NoOutcome == [h |-> EmptyDict, next |-> Null]

\* {"nfts": ..., "nextPageKey": ...}
Unwrapped(page) ==
    [ has_result |-> FALSE, result |-> NoPage,
      nfts |-> page.nfts, nextPageKey |-> page.nextPageKey ]

\* {"result": {"nfts": ..., "nextPageKey": ...}}
Wrapped(page) ==
    [ has_result |-> TRUE, result |-> page,
      nfts |-> << >>, nextPageKey |-> Null ]

\* lines 84-89 and 141 (scrape_token_ids.py 74-79 and 110): data, as the
\* nfts and nextPageKey read from it
DataOf(doc) ==
    IF doc.has_result THEN Page(doc.result.nfts, doc.result.nextPageKey)
    ELSE Page(doc.nfts, doc.nextPageKey)

(***************************************************************************)
(* scripts/analyze_distribution.py create_lorenz_curve: the Gini           *)
(* coefficient of a table of amounts.  The floats of the code are exact    *)
(* rationals [num, den] here, den > 0, in lowest terms.                    *)
(***************************************************************************)
RECURSIVE Gcd(_, _)
Gcd(a, b) == IF b = 0 THEN a ELSE Gcd(b, a % b)

Abs(a) == IF a < 0 THEN -a ELSE a

Rat(num, den) ==
    LET g == Gcd(Abs(num), Abs(den))
        sgn == IF den < 0 THEN -1 ELSE 1
    IN  [num |-> sgn * (num \div g), den |-> sgn * (den \div g)]

RatAdd(a, b) == Rat(a.num * b.den + b.num * a.den, a.den * b.den)
RatSub(a, b) == Rat(a.num * b.den - b.num * a.den, a.den * b.den)
RatMul(a, b) == Rat(a.num * b.num, a.den * b.den)
RatDiv(a, b) == Rat(a.num * b.den, a.den * b.num)

\* df.sort_values('amount') of line 118, as the column of amounts
RECURSIVE SortValues(_)
SortValues(amounts) ==
    IF amounts = << >> THEN << >>
    ELSE LET i == CHOOSE i \in 1..Len(amounts) :
                      \A j \in 1..Len(amounts) : amounts[i] <= amounts[j]
             rest == [j \in 1..(Len(amounts) - 1) |->
                          IF j < i THEN amounts[j] ELSE amounts[j + 1]]
         IN  << amounts[i] >> \o SortValues(rest)

\* sum() of line 119 and cumsum() of line 123
RECURSIVE Sum(_)
Sum(amounts) ==
    IF amounts = << >> THEN 0
    ELSE amounts[Len(amounts)] + Sum(SubSeq(amounts, 1, Len(amounts) - 1))

CumSum(amounts) ==
    [i \in 1..Len(amounts) |-> Sum(SubSeq(amounts, 1, i))]

\* np.trapz(y, x) of line 140: the sum of the trapezoids between
\* consecutive points, 0 for a single point
RECURSIVE Trapz(_, _, _)
Trapz(y, x, i) ==
    IF i >= Len(x) THEN Rat(0, 1)
    ELSE RatAdd(RatDiv(RatMul(RatSub(x[i + 1], x[i]),
                              RatAdd(y[i + 1], y[i])),
                       Rat(2, 1)),
                Trapz(y, x, i + 1))

\* lines 118-142: gini for the column of amounts of df
Gini(amounts) ==
    LET sorted == SortValues(amounts)
        total_tokens == Sum(sorted)
        total_holders == Len(sorted)
        cumulative_holders_pct ==
            [i \in 1..total_holders |->
                RatMul(Rat(i, total_holders), Rat(100, 1))]
        cumulative_tokens_pct ==
            [i \in 1..total_holders |->
                RatMul(Rat(CumSum(sorted)[i], total_tokens), Rat(100, 1))]
        area_under_lorenz ==
            Trapz(cumulative_tokens_pct, cumulative_holders_pct, 1)
        area_under_equality == Rat(5000, 1)
    IN  RatDiv(RatSub(area_under_equality, area_under_lorenz),
               area_under_equality)

(***************************************************************************)
(* The collectors as a state machine.                                      *)
(***************************************************************************)
VARIABLES
    tool,            \* which script runs: "holders" or "token_ids"
    network,         \* --network
    pc,              \* "Fetching": at the request of the while loop;
                     \* "InPage": in the loop over nfts; "Returned": the
                     \* function returned; "Crashed": it raised
    loop_exit,       \* the break that left the while loop: "none", "done"
                     \* (the end-of-pages check) or "failed" (an error payload
                     \* or an except clause)
    page_key,        \* the cursor the next request carries
    page_count,
    requests,        \* requests.get calls made
    result,          \* what the last request met: "none", "exception",
                     \* "http_error", "bad_json", "error_payload", "ok"
    next_page_key,   \* data.get("nextPageKey") of the response being read
    page_len,        \* records of nfts iterated so far
    served,          \* records iterated over the whole run
    nft,             \* the loop variable
    holders_tokens,
    token_ids,
    snapshot,        \* snapshot["snapshot"] as returned
    args_page_size,  \* --page-size as given
    page_size,       \* the page_size argument of the collecting function
    params,          \* the params of the last request made
    exit_status,     \* the exit status of the run, read once pc is
                     \* "Returned" or "Crashed"
    output_written,  \* the output file has been written
    raw, once, twice, canon_done,          \* canonicalization applied twice
    recs, perm, map_recs, map_perm, agg_done, \* aggregation in two orders
    amounts, gini, gini_done,              \* the Gini coefficient of a table
    rec_in, page_in, owner_read, token_read,   \* one record and one page
    out_wrapped, out_unwrapped, read_done      \* read in both wrappings

collectorVars ==
    << tool, network, pc, loop_exit, page_key, page_count, requests, result,
       next_page_key, page_len, served, nft, holders_tokens, token_ids,
       snapshot, args_page_size, page_size, params, exit_status,
       output_written >>
canonVars == << raw, once, twice, canon_done >>
aggVars == << recs, perm, map_recs, map_perm, agg_done >>
giniVars == << amounts, gini, gini_done >>
readVars ==
    << rec_in, page_in, owner_read, token_read, out_wrapped, out_unwrapped,
       read_done >>
vars == << collectorVars, canonVars, aggVars, giniVars, readVars >>

Tools == {"holders", "token_ids"}

\* the values of nextPageKey: absent or null, the empty string, a cursor
PageKeys == { Null, JStr(<< >>), JStr(<< "k", "1" >>), JStr(<< "k", "2" >>) }

\* the response documents: each cursor, at the top level and under "result"
\* (the records of the page are drawn one by one as the loop reads them)
Responses ==
    { Unwrapped(Page(<< >>, k)) : k \in PageKeys }
        \cup { Wrapped(Page(<< >>, k)) : k \in PageKeys }

\* the ways a request fails: requests.get raises, raise_for_status raises,
\* response.json() raises, the payload has an "error" field
Failures == {"exception", "http_error", "bad_json", "error_payload"}

CanonIdle ==
    /\ raw = << >>
    /\ once = << >>
    /\ twice = << >>
    /\ canon_done = FALSE

AggIdle ==
    /\ recs = << >>
    /\ perm = << >>
    /\ map_recs = EmptyDict
    /\ map_perm = EmptyDict
    /\ agg_done = FALSE

GiniIdle ==
    /\ amounts = << >>
    /\ gini = Rat(0, 1)
    /\ gini_done = FALSE

ReadIdle ==
    /\ rec_in = NoNft
    /\ page_in = NoPage
    /\ owner_read = Null
    /\ token_read = Null
    /\ out_wrapped = NoOutcome
    /\ out_unwrapped = NoOutcome
    /\ read_done = FALSE

\* line 244 (scrape_token_ids.py 196): --page-size when not given
DefaultPageSize == 100

\* lines 270-273 and 47-49 (scrape_token_ids.py 208-211 and 37-39): main()
\* up to the call of the collecting function, and that function up to its
\* while loop
CollectorInit ==
    /\ pc = "Fetching"
    /\ loop_exit = "none"
    /\ page_key = Null
    /\ page_count = 0
    /\ requests = 0
    /\ result = "none"
    /\ next_page_key = Null
    /\ page_len = 0
    /\ served = 0
    /\ nft = NoNft
    /\ holders_tokens = EmptyDict
    /\ token_ids = << >>
    /\ snapshot = << >>
    /\ page_size = ClampPageSize(args_page_size)
    /\ params = NoParams
    /\ exit_status = 0
    /\ output_written = FALSE

Init ==
    /\ tool \in Tools
    /\ network \in Networks
    /\ args_page_size \in PageSizeArgs
    /\ CollectorInit
    /\ CanonIdle
    /\ AggIdle
    /\ GiniIdle
    /\ ReadIdle

\* lines 158-186 and 289-294 (scrape_token_ids.py 127 and 223-228): what
\* follows the while loop, for the holder map h and the id list ids the
\* loop left: the function returns or raises, main() saves the output or
\* exits with status 1, an uncaught exception ends the run with status 1
Return(h, ids, exit) ==
    /\ loop_exit' = exit
    /\ IF tool = "holders"
       THEN IF Sortable(h)
            THEN /\ pc' = "Returned"
                 /\ snapshot' \in SnapshotData(h, DOMAIN h)
                 /\ output_written' = (snapshot' # << >>)
                 /\ exit_status' = IF snapshot' # << >> THEN 0 ELSE 1
            ELSE /\ pc' = "Crashed"
                 /\ snapshot' = << >>
                 /\ output_written' = FALSE
                 /\ exit_status' = 1
       ELSE /\ pc' = "Returned"
            /\ snapshot' = << >>
            /\ output_written' = (ids # << >>)
            /\ exit_status' = IF ids # << >> THEN 0 ELSE 1

\* lines 54-80 and 151-156 (scrape_token_ids.py 44-70, 120-125): a request
\* that fails
RequestFails ==
    /\ pc = "Fetching"
    /\ requests < MaxPages
    /\ requests' = requests + 1
    /\ params' = BuildParams(page_size, page_key)
    /\ \E f \in Failures : result' = f
    /\ Return(holders_tokens, token_ids, "failed")
    /\ UNCHANGED << tool, network, page_key, page_count, next_page_key,
                    page_len, served, nft, holders_tokens, token_ids,
                    args_page_size, page_size >>
    /\ UNCHANGED << canonVars, aggVars, giniVars, readVars >>

\* lines 54-89 (scrape_token_ids.py 44-79): a request answered by a page,
\* wrapped in "result" or not
RequestSucceeds ==
    /\ pc = "Fetching"
    /\ requests < MaxPages
    /\ requests' = requests + 1
    /\ params' = BuildParams(page_size, page_key)
    /\ result' = "ok"
    /\ \E doc \in Responses : next_page_key' = DataOf(doc).nextPageKey
    /\ page_len' = 0
    /\ pc' = "InPage"
    /\ UNCHANGED << tool, network, loop_exit, page_key, page_count, served,
                    nft, holders_tokens, token_ids, snapshot,
                    args_page_size, page_size, exit_status, output_written >>
    /\ UNCHANGED << canonVars, aggVars, giniVars, readVars >>

\* lines 92-133 and 154-156: one record of the page, in scrape_holders.py
HolderRecord ==
    /\ pc = "InPage"
    /\ tool = "holders"
    /\ served < MaxRecords
    /\ \E r \in Nfts :
          LET p == ProcessNft(holders_tokens, r, network)
          IN  /\ nft' = r
              /\ holders_tokens' = p.h
              /\ IF p.raised THEN Return(p.h, token_ids, "failed")
                 ELSE UNCHANGED << pc, loop_exit, snapshot, exit_status,
                                   output_written >>
    /\ served' = served + 1
    /\ page_len' = page_len + 1
    /\ UNCHANGED << tool, network, page_key, page_count, requests, result,
                    next_page_key, token_ids, args_page_size, page_size,
                    params >>
    /\ UNCHANGED << canonVars, aggVars, giniVars, readVars >>

\* scrape_token_ids.py lines 82-102 and 123-125: one record of the page
TokenRecord ==
    /\ pc = "InPage"
    /\ tool = "token_ids"
    /\ served < MaxRecords
    /\ \E r \in Nfts :
          LET p == ProcessTokenNft(token_ids, r)
          IN  /\ nft' = r
              /\ token_ids' = p.ids
              /\ IF p.raised THEN Return(holders_tokens, p.ids, "failed")
                 ELSE UNCHANGED << pc, loop_exit, snapshot, exit_status,
                                   output_written >>
    /\ served' = served + 1
    /\ page_len' = page_len + 1
    /\ UNCHANGED << tool, network, page_key, page_count, requests, result,
                    next_page_key, holders_tokens, args_page_size, page_size,
                    params >>
    /\ UNCHANGED << canonVars, aggVars, giniVars, readVars >>

\* the check of line 142 (scrape_token_ids.py 111)
LastPage(next, len) == ~Truthy(next) \/ len = 0

\* lines 135-149 (scrape_token_ids.py 104-118): the records of the page are
\* exhausted
EndOfPage ==
    /\ pc = "InPage"
    /\ page_count' = page_count + 1
    /\ IF LastPage(next_page_key, page_len)
       THEN /\ Return(holders_tokens, token_ids, "done")
            /\ UNCHANGED page_key
       ELSE /\ page_key' = next_page_key
            /\ pc' = "Fetching"
            /\ UNCHANGED << loop_exit, snapshot, exit_status,
                            output_written >>
    /\ UNCHANGED << tool, network, requests, result, next_page_key, page_len,
                    served, nft, holders_tokens, token_ids, args_page_size,
                    page_size, params >>
    /\ UNCHANGED << canonVars, aggVars, giniVars, readVars >>

Next ==
    \/ RequestFails
    \/ RequestSucceeds
    \/ EndOfPage
    \/ HolderRecord
    \/ TokenRecord

Spec == Init /\ [][Next]_vars

(***************************************************************************)
(* Canonicalization as a pure function: lines 112-123 applied to a raw     *)
(* address, and again to the result.                                       *)
(***************************************************************************)
AddrChars == {"0", "x", "X", "a", "A", "z"}

Str0x000abc == << "0", "x", "0", "0", "0", "a", "b", "c" >>
Str0x0000 == << "0", "x", "0", "0", "0", "0" >>

\* the raw addresses: every non-empty string over AddrChars up to the
\* bound, and the two addresses of the specification's scenario
RawAddresses ==
    UNION { [1..k -> AddrChars] : k \in 1..MaxAddrLen }
        \cup { Str0x000abc, Str0x0000 }

InitCanon ==
    /\ tool = "holders"
    /\ network \in Networks
    /\ args_page_size = DefaultPageSize
    /\ CollectorInit
    /\ AggIdle
    /\ GiniIdle
    /\ ReadIdle
    /\ raw \in RawAddresses
    /\ once = << >>
    /\ twice = << >>
    /\ canon_done = FALSE

CanonicalizeTwice ==
    /\ ~canon_done
    /\ once' = Canonicalize(raw, network)
    /\ twice' = Canonicalize(Canonicalize(raw, network), network)
    /\ canon_done' = TRUE
    /\ UNCHANGED << raw, collectorVars, aggVars, giniVars, readVars >>

NextCanon == CanonicalizeTwice

SpecCanon == InitCanon /\ [][NextCanon]_vars

(***************************************************************************)
(* Aggregation as a pure function: the loop of lines 92-133 over one page  *)
(* of records, and over a permutation of it.                               *)
(***************************************************************************)
\* lines 92-133 with the except clause of 154-156: the holder map the loop
\* leaves, a raising record ending it
RECURSIVE Aggregate(_, _, _)
Aggregate(h, records, net) ==
    IF records = << >> THEN h
    ELSE LET p == ProcessNft(h, Head(records), net)
         IN  IF p.raised THEN p.h ELSE Aggregate(p.h, Tail(records), net)

\* lines 84-145 for one response: the holder map the loop over its nfts
\* leaves and the cursor read from it
Outcome(doc, net) ==
    [ h |-> Aggregate(EmptyDict, DataOf(doc).nfts, net),
      next |-> DataOf(doc).nextPageKey ]

Reorderings(n) ==
    { f \in [1..n -> 1..n] : \A i, j \in 1..n : f[i] = f[j] => i = j }

InitAgg ==
    /\ tool = "holders"
    /\ network \in Networks
    /\ args_page_size = DefaultPageSize
    /\ CollectorInit
    /\ CanonIdle
    /\ GiniIdle
    /\ ReadIdle
    /\ recs \in UNION { [1..k -> Nfts] : k \in 0..MaxAggLen }
    /\ \E f \in Reorderings(Len(recs)) :
          perm = [i \in 1..Len(recs) |-> recs[f[i]]]
    /\ map_recs = EmptyDict
    /\ map_perm = EmptyDict
    /\ agg_done = FALSE

AggregateBoth ==
    /\ ~agg_done
    /\ map_recs' = Aggregate(EmptyDict, recs, network)
    /\ map_perm' = Aggregate(EmptyDict, perm, network)
    /\ agg_done' = TRUE
    /\ UNCHANGED << recs, perm, collectorVars, canonVars, giniVars,
                    readVars >>

NextAgg == AggregateBoth

SpecAgg == InitAgg /\ [][NextAgg]_vars

(***************************************************************************)
(* The Gini coefficient as a pure function: create_lorenz_curve applied to *)
(* a table of amounts.                                                     *)
(***************************************************************************)
\* ten holders with amount 5 each
TenFives == [i \in 1..10 |-> 5]

\* the amount columns: every non-empty table of positive amounts up to the
\* bounds, and the ten equal holders
Tables ==
    UNION { [1..n -> 1..MaxAmount] : n \in 1..MaxHolders } \cup { TenFives }

InitGini ==
    /\ tool = "holders"
    /\ network = "starknet"
    /\ args_page_size = DefaultPageSize
    /\ CollectorInit
    /\ CanonIdle
    /\ AggIdle
    /\ ReadIdle
    /\ amounts \in Tables
    /\ gini = Rat(0, 1)
    /\ gini_done = FALSE

\* analyze_distribution.py lines 113-150
CreateLorenzCurve ==
    /\ ~gini_done
    /\ gini' = Gini(amounts)
    /\ gini_done' = TRUE
    /\ UNCHANGED << amounts, collectorVars, canonVars, aggVars, readVars >>

NextGini == CreateLorenzCurve

SpecGini == InitGini /\ [][NextGini]_vars

(***************************************************************************)
(* Reading one record and one response as pure functions: the alias        *)
(* lookups of lines 94-109 on a record, and lines 84-133 on the response   *)
(* that holds it, wrapped in "result" and not.                             *)
(***************************************************************************)
AliasOwners == { Absent, Null, JStr(<< "0", "x", "a" >>),
                 JStr(<< "0", "x", "b" >>) }
AliasTokens == { Absent, Null, JInt(1), JInt(2) }

\* the records: every combination of the six aliases
AliasRecords ==
    { Nft(oa, o_a, o, ti, t_i, i) :
        oa \in AliasOwners, o_a \in AliasOwners, o \in AliasOwners,
        ti \in AliasTokens, t_i \in AliasTokens, i \in AliasTokens }

InitRead ==
    /\ tool = "holders"
    /\ network = "starknet"
    /\ args_page_size = DefaultPageSize
    /\ CollectorInit
    /\ CanonIdle
    /\ AggIdle
    /\ GiniIdle
    /\ rec_in \in AliasRecords
    /\ \E k \in PageKeys : page_in = Page(<< rec_in >>, k)
    /\ owner_read = Null
    /\ token_read = Null
    /\ out_wrapped = NoOutcome
    /\ out_unwrapped = NoOutcome
    /\ read_done = FALSE

ReadBoth ==
    /\ ~read_done
    /\ owner_read' = OwnerOf(rec_in)
    /\ token_read' = TokenOf(rec_in)
    /\ out_wrapped' = Outcome(Wrapped(page_in), network)
    /\ out_unwrapped' = Outcome(Unwrapped(page_in), network)
    /\ read_done' = TRUE
    /\ UNCHANGED << rec_in, page_in, collectorVars, canonVars, aggVars,
                    giniVars >>

NextRead == ReadBoth

SpecRead == InitRead /\ [][NextRead]_vars

(***************************************************************************)
(* Notions the properties are stated in.                                   *)
(***************************************************************************)
\* the integer a token-id text denotes: 0x-prefixed hex or plain decimal
ToInternal(s) == IF StartsWith0x(s) THEN ParseInt(s, 16) ELSE ParseInt(s, 10)

\* "0x" followed by one or more hexadecimal digits
IsHexAddress(a) ==
    /\ Len(a) >= 3
    /\ StartsWith0x(a)
    /\ \A i \in 3..Len(a) : DigitVal(a[i], 16) >= 0

\* the digits of a raw address are all zeros
AllZero(s) ==
    LET d == IF StartsWith0x(s) THEN From2(s) ELSE s
    IN  d # << >> /\ \A i \in 1..Len(d) : d[i] = "0"

\* the snapshot list snap holds exactly the entries of the holder map h
SnapshotHolds(snap, h) ==
    /\ { snap[i][1] : i \in 1..Len(snap) } = DOMAIN h
    /\ \A i \in 1..Len(snap) :
          { snap[i][2][j] : j \in 1..Len(snap[i][2]) }
              = { x.s : x \in h[snap[i][1]] }

\* get_collection_holders returned a snapshot
HoldersReturned == tool = "holders" /\ pc = "Returned"

\* the step iterates one more record of the page
RecordStep == pc = "InPage" /\ served' = served + 1

\* a token id that is not numeric or of an unusable type, or, where the
\* owner is read, an owner of an unusable type
Malformed(r) ==
    \/ TokenOf(r).t = "list"
    \/ TokenOf(r).t = "str" /\ ~ToInternal(TokenOf(r).s).ok
    \/ tool = "holders" /\ OwnerOf(r).t \in {"int", "float", "list"}

\* the non-negative integer the token id of r is, ok = FALSE when it is none
TokenNat(r) ==
    LET v == TokenOf(r)
        p == ToInternal(v.s)
    IN  IF v.t = "int" THEN [ok |-> v.n >= 0, val |-> v.n]
        ELSE IF v.t = "str" THEN [ok |-> p.ok /\ p.val >= 0, val |-> p.val]
        ELSE [ok |-> FALSE, val |-> 0]

CarriesBoth(r) ==
    /\ OwnerOf(r).t = "str"
    /\ OwnerOf(r).s # << >>
    /\ TokenNat(r).ok

MissingEither(r) == OwnerOf(r).t = "null" \/ TokenOf(r).t = "null"

(***************************************************************************)
(* The properties.                                                         *)
(***************************************************************************)
\* C1: a request that fails ends the run at once: the function returns with
\* the failed exit, the records accumulated so far are untouched and are
\* what it returns, and no further request is made.
C1_FailedPageReturnsAccumulated ==
    [][ /\ (pc = "Fetching" /\ result' \in Failures) =>
              /\ pc' = "Returned"
              /\ loop_exit' = "failed"
              /\ holders_tokens' = holders_tokens
              /\ token_ids' = token_ids
              /\ tool = "holders" => SnapshotHolds(snapshot', holders_tokens)
        /\ loop_exit = "failed" => requests' = requests ]_vars

\* C2: a page without a next cursor, and an empty page, end the run through
\* the end-of-pages exit: no step of such a page fails or asks for another
\* page, and when its records are exhausted the function returns everything
\* accumulated, the records of this page included.
C2_LastPageEndsDone ==
    [][ /\ (pc = "InPage" /\ next_page_key = Null) =>
              /\ pc' \in {"InPage", "Returned"}
              /\ loop_exit' \in {"none", "done"}
              /\ requests' = requests
        /\ (/\ pc = "InPage"
            /\ page_count' = page_count + 1
            /\ (page_len = 0 \/ next_page_key = Null)) =>
              /\ pc' = "Returned"
              /\ loop_exit' = "done"
              /\ holders_tokens' = holders_tokens
              /\ token_ids' = token_ids
              /\ tool = "holders" => SnapshotHolds(snapshot', holders_tokens)
        /\ loop_exit = "done" => requests' = requests ]_vars

\* C3: a malformed record is skipped: the step that reads it leaves the
\* accumulated records as they were and the run goes on with the page.
C3_MalformedRecordSkipped ==
    [][ (RecordStep /\ Malformed(nft')) =>
            /\ pc' = "InPage"
            /\ loop_exit' = "none"
            /\ holders_tokens' = holders_tokens
            /\ token_ids' = token_ids ]_vars

\* C4: the holder aggregation skips exactly the records missing an owner or
\* a token id: a record with an owner address and a non-negative integer
\* token id puts an entry denoting that integer into the owner's set, and a
\* record missing either changes nothing.
C4_SkipsExactlyMissing ==
    [][ (RecordStep /\ tool = "holders") =>
            /\ CarriesBoth(nft') =>
                  LET a == Canonicalize(OwnerOf(nft').s, network)
                  IN  /\ a \in DOMAIN holders_tokens'
                      /\ \E x \in holders_tokens'[a] :
                            /\ x.t = "str"
                            /\ ToInternal(x.s).ok
                            /\ ToInternal(x.s).val = TokenNat(nft').val
            /\ MissingEither(nft') =>
                  /\ holders_tokens' = holders_tokens
                  /\ pc' = "InPage" ]_vars

\* C5: no holder's list in the snapshot has two entries denoting the same
\* integer.
C5_TokenIdsDistinctIntegers ==
    HoldersReturned =>
        \A i \in 1..Len(snapshot) :
            \A j, k \in 1..Len(snapshot[i][2]) :
                j < k => ToInternal(snapshot[i][2][j]) # ToInternal(snapshot[i][2][k])

\* C6: every token id of the snapshot is the minimal lower-case 0x-prefixed
\* hex text of a non-negative integer: s = toHex(toInternal(s)).
C6_SerializedIdsCanonical ==
    HoldersReturned =>
        \A i \in 1..Len(snapshot) :
            \A j \in 1..Len(snapshot[i][2]) :
                LET s == snapshot[i][2][j]
                    p == ToInternal(s)
                IN  p.ok /\ p.val >= 0 /\ s = hex(p.val)

\* C7: every address key of the snapshot is "0x" followed by one or more
\* hexadecimal digits.
C7_AddressKeysHex ==
    HoldersReturned =>
        \A i \in 1..Len(snapshot) : IsHexAddress(snapshot[i][1])

\* C8: canonicalization is idempotent on both chain kinds; on Starknet
\* "0x000abc" gives "0xabc" and an all-zero address gives "0x0", never "0x".
C8_CanonicalizeIdempotent ==
    canon_done =>
        /\ twice = once
        /\ network = "starknet" =>
              /\ raw = Str0x000abc => once = << "0", "x", "a", "b", "c" >>
              /\ AllZero(raw) => once = << "0", "x", "0" >>
              /\ once # << "0", "x" >>

\* C8 witness: the scenario address has been canonicalized on Starknet
C8_Witness ==
    /\ canon_done
    /\ network = "starknet"
    /\ raw = Str0x000abc
    /\ once = << "0", "x", "a", "b", "c" >>
    /\ twice = once

\* C9: aggregating a sequence of records and any permutation of it gives
\* the same holder map.
C9_OrderInsensitive == agg_done => map_recs = map_perm

\* C10: the snapshot is strictly ascending by address, and each address's
\* token ids are ascending by value and not empty.
C10_SnapshotSorted ==
    HoldersReturned =>
        /\ \A i \in 1..(Len(snapshot) - 1) :
              StrLess(snapshot[i][1], snapshot[i + 1][1])
        /\ \A i \in 1..Len(snapshot) :
              /\ snapshot[i][2] # << >>
              /\ \A j \in 1..(Len(snapshot[i][2]) - 1) :
                    ParseInt(snapshot[i][2][j], 16).val
                        <= ParseInt(snapshot[i][2][j + 1], 16).val


\* a step that issues a request
RequestStep == requests' = requests + 1

\* the parameters a run fixes: every param of a request but the cursor
SameFixedParams(p, q) ==
    /\ p.contractAddress = q.contractAddress
    /\ p.pageSize = q.pageSize
    /\ p.startTokenId = q.startTokenId
    /\ p.endTokenId = q.endTokenId

\* C11: the first request of a run carries no cursor; a later request is
\* issued only when the page of the preceding response has been read to
\* its end, carries the cursor that response returned, and has the fixed
\* parameters and the pageSize of the request before it.
C11_CursorChained ==
    [][RequestStep =>
          /\ pc = "Fetching"
          /\ page_count = requests
          /\ IF requests = 0
             THEN ~Has(params'.pageKey)
             ELSE /\ result = "ok"
                  /\ Truthy(next_page_key)
                  /\ params'.pageKey = next_page_key
                  /\ SameFixedParams(params', params)]_vars

\* a second request has been made, after a page of records, and carries a
\* cursor
C11_Witness ==
    /\ requests = 2
    /\ served > 0
    /\ params.pageKey = JStr(<< "k", "1" >>)

\* C12: every request carries a pageSize of at most 100, and a run asked
\* for more than 100 sends requests with pageSize 100.
C12_PageSizeClamped ==
    requests > 0 =>
        /\ ParseInt(params.pageSize, 10).ok
        /\ ParseInt(params.pageSize, 10).val <= 100
        /\ args_page_size > 100 => params.pageSize = << "1", "0", "0" >>
        /\ args_page_size <= 100 =>
              ParseInt(params.pageSize, 10).val = args_page_size

\* a run asked for a page size above 100 has made a request
C12_Witness ==
    /\ args_page_size > 100
    /\ requests > 0
    /\ params.pageSize = << "1", "0", "0" >>

\* the run is over
Exited == pc \in {"Returned", "Crashed"}

\* the holders, or the token ids, the loop collected
Collected ==
    IF tool = "holders" THEN Cardinality(DOMAIN holders_tokens)
    ELSE Len(token_ids)

\* C13: a run that is over has a non-zero exit status and no output file
\* exactly when it collected nothing; with one record or more collected
\* the output file is written and the status is zero.
C13_ExitStatusIffEmpty ==
    Exited =>
        /\ (exit_status # 0 /\ ~output_written) <=> (Collected = 0)
        /\ Collected > 0 => (output_written /\ exit_status = 0)

\* every holder of the table has the same amount
AllEqual(t) == \A i, j \in 1..Len(t) : t[i] = t[j]

\* C14: the Gini coefficient of a table of n >= 1 holders who all hold the
\* same positive amount is exactly 0.
C14_EqualInputGiniZero ==
    (gini_done /\ AllEqual(amounts)) => gini.num = 0

\* the value of the first key of keys the record r has, None when it has
\* none of them
RECURSIVE FirstPresent(_, _)
FirstPresent(r, keys) ==
    IF keys = << >> THEN Null
    ELSE IF r[Head(keys)].t # "absent" THEN r[Head(keys)]
    ELSE FirstPresent(r, Tail(keys))

\* C15: the owner of a record is the value of the first key it has among
\* ownerAddress, owner_address, owner, its token id the value of the first
\* key it has among tokenId, token_id, id, whatever the keys after that one
\* hold; a response read with its page under "result" and with its page at
\* the top level gives the same holder map and the same cursor, the cursor
\* of the page.
C15_AliasPriorityAndWrapping ==
    read_done =>
        /\ owner_read =
              FirstPresent(rec_in, << "ownerAddress", "owner_address",
                                      "owner" >>)
        /\ token_read =
              FirstPresent(rec_in, << "tokenId", "token_id", "id" >>)
        /\ out_wrapped = out_unwrapped
        /\ out_wrapped.next = page_in.nextPageKey

\* a record read with two owner aliases and two token aliases of different
\* values, the higher of each taken, in a page that has a cursor
C15_Witness ==
    /\ read_done
    /\ rec_in.ownerAddress = JStr(<< "0", "x", "a" >>)
    /\ rec_in.owner = JStr(<< "0", "x", "b" >>)
    /\ rec_in.tokenId = Absent
    /\ rec_in.token_id = JInt(2)
    /\ rec_in.id = JInt(1)
    /\ owner_read = JStr(<< "0", "x", "a" >>)
    /\ token_read = JInt(2)
    /\ DOMAIN out_wrapped.h = { << "0", "x", "a" >> }
    /\ out_wrapped.h[<< "0", "x", "a" >>] = { JStr(<< "0", "x", "2" >>) }
    /\ out_wrapped.next = JStr(<< "k", "1" >>)

\* a step that leaves the while loop
LoopEnds == loop_exit = "none" /\ loop_exit' # "none"

\* C16: the collection loop ends only on an ending response: a request
\* that failed, or a page that is empty or has no cursor.
C16_EndsOnlyOnEndingResponse ==
    [][LoopEnds =>
          \/ result' \in Failures
          \/ ~Truthy(next_page_key')
          \/ page_len' = 0]_vars


=============================================================================
